---- MODULE Spec2Model ----
(***************************************************************************)
(* A model of the ecsnap entity/component store and of its system          *)
(* dispatch: Entity (src/src/entity.rs), EntityBuilder (entity.rs), World  *)
(* (src/src/world.rs) and the SystemData implementations                   *)
(* (src/src/system.rs).                                                    *)
(*                                                                         *)
(* A HashMap is a function whose domain is the set of its keys.  A         *)
(* Box<dyn Any> is a record [type, val]: the dynamic type of the boxed     *)
(* value and the value.  A component value is a struct of two numbers,     *)
(* [x, y] (Pos and Vel of the crate's examples); the f64 fields are        *)
(* modelled as naturals.  Option<T> is None or Some(v).                    *)
(*                                                                         *)
(* The specifications share the variables:                                 *)
(*   Spec        the World: create_entity/with/build, destroy_entity,      *)
(*               get_component_for_entity, remove_component_from_entity,   *)
(*               dispatch_system;                                          *)
(*   SpecRegistry  the World with register_component;                      *)
(*   SpecBuilder   construction chains, the with() calls recorded;         *)
(*   SpecTicks   consecutive dispatch_system calls on a built World;       *)
(*   SpecAbort   dispatch_system of a system whose run panics;             *)
(*   SpecResources  ResourceData for () and systems with Resources = ();   *)
(*   SpecEntity  entities outside the registry: one stand-alone Entity     *)
(*               (add_component, get_component, get_mut_component,         *)
(*               remove_component, set, fetch) and the entity of an        *)
(*               EntityBuilder (with).                                     *)
(***************************************************************************)
EXTENDS Integers, Sequences, FiniteSets, TLC

\* ------------------------------------------------------------------ bounds
\* Identities are handed out while next_entity_id < MaxEntities.
MaxEntities == 2
\* dispatch_system is taken only while every coordinate stays <= MaxCoord.
MaxCoord == 2
\* SpecTicks follows the first MaxCalls dispatch_system calls on a World.
MaxCalls == 2
\* SpecBuilder follows the first MaxWith with() calls of a construction chain.
MaxWith == 3

\* ------------------------------------------------------------ value domain
TypeIds == {"Pos", "Vel"}

Eids == 0..MaxEntities

\* Every component value the bounded model can hold: a struct {x, y}.
CompValues == [x : 0..MaxCoord, y : {0, 1}]

\* The values handed to EntityBuilder::with.
PosInputs == {[x |-> 0, y |-> 1], [x |-> 1, y |-> 1]}

VelInputs == {[x |-> 1, y |-> 0]}

WithInputs(C) == IF C = "Pos" THEN PosInputs ELSE VelInputs

None == [some |-> FALSE]

Some(v) == [some |-> TRUE, val |-> v]

\* Box::new(component) for a component of static type C.
Box(C, v) == [type |-> C, val |-> v]

\* ---------------------------------------------------------------- HashMap
EmptyMap == [k \in {} |-> None]

HashMap_get(m, k) == IF k \in DOMAIN m THEN Some(m[k]) ELSE None

HashMap_insert(m, k, v) ==
    [map |-> [j \in (DOMAIN m) \cup {k} |-> IF j = k THEN v ELSE m[j]],
     ret |-> IF k \in DOMAIN m THEN Some(m[k]) ELSE None]

HashMap_remove(m, k) ==
    [map |-> [j \in (DOMAIN m) \ {k} |-> m[j]],
     ret |-> IF k \in DOMAIN m THEN Some(m[k]) ELSE None]

\* Box<dyn Any>::downcast::<C>, downcast_ref::<C>, downcast_mut::<C>.
downcast(bx, C) == IF bx.type = C THEN Some(bx.val) ELSE None

\* ----------------------------------------------------------------- Entity
\* Entity::default()
Entity_default == [components |-> EmptyMap]

\* add_component that keeps a component already stored (insert-if-absent).
add_component_keep_old(e, C, component) ==
    IF C \in DOMAIN e.components
    THEN [self |-> e, ret |-> downcast(e.components[C], C), panic |-> FALSE]
    ELSE [self |-> [components |-> HashMap_insert(e.components, C, Box(C, component)).map],
          ret |-> None, panic |-> FALSE]

\* add_component that returns the component it was given, not the previous one.
add_component_returns_new(e, C, component) ==
    LET ins == HashMap_insert(e.components, C, Box(C, component))
    IN  [self |-> [components |-> ins.map],
         ret |-> IF ins.ret.some THEN Some(component) ELSE None,
         panic |-> FALSE]

\* Entity::add_component::<C>(component).  self: the entity afterwards,
\* ret: the returned Option, panic: whether panic!() was reached.
add_component(e, C, component) ==
    LET ins == HashMap_insert(e.components, C, Box(C, component))
        self == [components |-> ins.map]
    IN  IF ins.ret.some
        THEN IF downcast(ins.ret.val, C).some
             THEN [self |-> self, ret |-> Some(downcast(ins.ret.val, C).val),
                   panic |-> FALSE]
             ELSE [self |-> self, ret |-> None, panic |-> TRUE]
        ELSE [self |-> self, ret |-> None, panic |-> FALSE]

\* Entity::get_component::<C>()
get_component(e, C) ==
    LET bx == HashMap_get(e.components, C)
    IN  IF bx.some THEN downcast(bx.val, C) ELSE None

\* Entity::get_mut_component::<C>(): the unwrap() of HashMap::get_mut
\* panics when the key is absent.  ret is the Option<&mut C>.
get_mut_component(e, C) ==
    LET bx == HashMap_get(e.components, C)
    IN  IF bx.some
        THEN [ret |-> downcast(bx.val, C), panic |-> FALSE]
        ELSE [ret |-> None, panic |-> TRUE]

\* A write of v through the &mut C that get_mut_component::<C>() returned.
write_through(e, C, v) ==
    [components |-> [e.components EXCEPT ![C] = Box(C, v)]]

\* remove_component that reads the component and leaves it in the map.
remove_component_keeps(e, C) ==
    LET bx == HashMap_get(e.components, C)
    IN  [self |-> e, ret |-> IF bx.some THEN downcast(bx.val, C) ELSE None,
         panic |-> FALSE]

\* Entity::remove_component::<C>()
remove_component(e, C) ==
    LET rem == HashMap_remove(e.components, C)
        self == [components |-> rem.map]
    IN  IF rem.ret.some
        THEN IF downcast(rem.ret.val, C).some
             THEN [self |-> self, ret |-> Some(downcast(rem.ret.val, C).val),
                   panic |-> FALSE]
             ELSE [self |-> self, ret |-> None, panic |-> TRUE]
        ELSE [self |-> self, ret |-> None, panic |-> FALSE]

\* ------------------------------------------------------------- SystemData
\* A Data shape is the sequence of its component types: <<>> is (),
\* <<C>> is C, <<A, B>> is (A, B).  A SystemData value is the sequence of
\* the component values, in the order of the shape.
Shapes == {<<>>, <<"Pos">>, <<"Vel">>, <<"Pos", "Vel">>, <<"Pos", "Pos">>}

\* impl SystemData for () :: fetch
fetch_unit(e) == None

\* impl<C> SystemData for C :: fetch
fetch_C(e, C) ==
    LET c == get_component(e, C)
    IN  IF c.some THEN Some(<<c.val>>) ELSE None

\* A tuple fetch that asks for the first member only.
fetch_AB_first_only(e, A, B) ==
    LET a == get_component(e, A)
        b == get_component(e, B)
    IN  IF a.some THEN Some(<<a.val, IF b.some THEN b.val ELSE a.val>>) ELSE None

\* A tuple fetch that succeeds when the entity holds either member and
\* fills the place of a missing member with the other one.
fetch_AB_either(e, A, B) ==
    LET a == get_component(e, A)
        b == get_component(e, B)
    IN  IF a.some \/ b.some
        THEN Some(<<IF a.some THEN a.val ELSE b.val, IF b.some THEN b.val ELSE a.val>>)
        ELSE None

\* impl<A, B> SystemData for (A, B) :: fetch
fetch_AB(e, A, B) ==
    LET a == get_component(e, A)
        b == get_component(e, B)
    IN  IF a.some /\ b.some THEN Some(<<a.val, b.val>>) ELSE None

\* S::Data::fetch(entity), by the shape of S::Data.
fetch(e, shape) ==
    CASE Len(shape) = 0 -> fetch_unit(e)
      [] Len(shape) = 1 -> fetch_C(e, shape[1])
      [] Len(shape) = 2 -> fetch_AB(e, shape[1], shape[2])

\* impl SystemData for () :: set
set_unit(e) == [self |-> e, panic |-> FALSE]

\* impl<C> SystemData for C :: set
set_C(e, C, data) ==
    LET r == add_component(e, C, data[1])
    IN  [self |-> r.self, panic |-> r.panic]

\* A tuple set that writes the second member only.
set_AB_second_only(e, A, B, data) ==
    LET r2 == add_component(e, B, data[2])
    IN  [self |-> r2.self, panic |-> r2.panic]

\* A tuple set that writes the members the entity already holds.
set_AB_if_held(e, A, B, data) ==
    LET r1 == IF A \in DOMAIN e.components THEN add_component(e, A, data[1]).self ELSE e
        r2 == IF B \in DOMAIN e.components THEN add_component(r1, B, data[2]).self ELSE r1
    IN  [self |-> r2, panic |-> FALSE]

\* impl<A, B> SystemData for (A, B) :: set
set_AB(e, A, B, data) ==
    LET r1 == add_component(e, A, data[1])
        r2 == add_component(r1.self, B, data[2])
    IN  IF r1.panic THEN [self |-> r1.self, panic |-> TRUE]
        ELSE [self |-> r2.self, panic |-> r2.panic]

\* Entity::set::<S>(data): data.set(self)
Entity_set(e, shape, data) ==
    CASE Len(shape) = 0 -> set_unit(e)
      [] Len(shape) = 1 -> set_C(e, shape[1], data)
      [] Len(shape) = 2 -> set_AB(e, shape[1], shape[2], data)

\* The component values set() is called with: the corners of CompValues.
SetValues == [x : {0, MaxCoord}, y : {0, 1}]

\* The SystemData values of a shape that set() is called with.
DataValues(shape) == [1..Len(shape) -> SetValues]

\* ----------------------------------------------------------- ResourceData
\* impl ResourceData for () :: fetch_res
fetch_res_unit(w) == None

\* ----------------------------------------------------------------- System
\* MovementSystem { dt } of the crate documentation, Data = (Pos, Vel).
DtValues == {1, 2}

MovementSystems == [name : {"MovementSystem"}, data : {<<"Pos", "Vel">>}, dt : DtValues]

\* A system that keeps the trait's default run, for every Data shape.
DefaultSystems == [name : {"DefaultSystem"}, data : Shapes, dt : {0}]

Systems == MovementSystems \cup DefaultSystems

\* A system that moves like MovementSystem and counts the invocations of its
\* run (run takes &mut self): the invocation numbered aborts panics before
\* it returns.
AbortingSystems ==
    [name : {"AbortingSystem"}, data : {<<"Pos", "Vel">>}, dt : {1},
     aborts : 1..MaxEntities]

\* Whether invocation n of sys.run in a dispatch aborts.
run_aborts(sys, n) == sys.name = "AbortingSystem" /\ n = sys.aborts

\* MovementSystem::run: pos.x += vel.x * dt; pos.y += vel.y * dt
MovementSystem_run(sys, data) ==
    LET pos == data[1]
        vel == data[2]
    IN  <<[x |-> pos.x + vel.x * sys.dt, y |-> pos.y + vel.y * sys.dt], vel>>

\* System::run, the default body: {}
System_run_default(sys, data) == data

\* sys.run(&mut new_data): the data afterwards.
run(sys, data) ==
    IF sys.name \in {"MovementSystem", "AbortingSystem"}
    THEN MovementSystem_run(sys, data)
    ELSE System_run_default(sys, data)

\* ------------------------------------------------------------------ World
\* World::default()
World_default == [component_ids |-> {}, entities |-> EmptyMap, next_entity_id |-> 0]

\* HashSet::insert: whether the value was newly inserted.
HashSet_insert(s, v) == [set |-> s \cup {v}, ret |-> v \notin s]

\* register_component that reports every type as newly registered.
register_component_always_new(w, C) ==
    [world |-> [w EXCEPT !.component_ids = w.component_ids \cup {C}], ret |-> TRUE]

\* World::register_component::<C>()
register_component(w, C) ==
    LET ins == HashSet_insert(w.component_ids, C)
    IN  [world |-> [w EXCEPT !.component_ids = ins.set], ret |-> ins.ret]

\* insert_entity that leaves next_entity_id as it was.
insert_entity_no_increment(w, e) ==
    LET id == w.next_entity_id
    IN  [world |-> [w EXCEPT !.entities = HashMap_insert(w.entities, id, e).map],
         ret |-> id]

\* insert_entity that takes the number of stored entities as the identity.
insert_entity_by_len(w, e) ==
    LET id == Cardinality(DOMAIN w.entities)
    IN  [world |-> [w EXCEPT !.entities = HashMap_insert(w.entities, id, e).map,
                             !.next_entity_id = w.next_entity_id + 1],
         ret |-> id]

\* World::insert_entity(e)
insert_entity(w, e) ==
    LET id == w.next_entity_id
    IN  [world |-> [w EXCEPT !.entities = HashMap_insert(w.entities, id, e).map,
                             !.next_entity_id = w.next_entity_id + 1],
         ret |-> id]

\* World::get_component_for_entity::<C>(entity)
get_component_for_entity(w, C, entity) ==
    LET e == HashMap_get(w.entities, entity)
    IN  IF e.some THEN get_component(e.val, C) ELSE None

\* remove_component_from_entity that takes C away from every entity of the
\* registry and returns what the named entity held.
remove_component_from_every_entity(w, C, entity) ==
    LET e == HashMap_get(w.entities, entity)
    IN  [world |-> [w EXCEPT !.entities =
                        [id \in DOMAIN w.entities |->
                            remove_component(w.entities[id], C).self]],
         ret |-> IF e.some THEN get_component(e.val, C) ELSE None,
         panic |-> FALSE]

\* World::remove_component_from_entity::<C>(entity)
remove_component_from_entity(w, C, entity) ==
    LET e == HashMap_get(w.entities, entity)
    IN  IF e.some
        THEN LET r == remove_component(e.val, C)
             IN  [world |-> [w EXCEPT !.entities[entity] = r.self],
                  ret |-> r.ret, panic |-> r.panic]
        ELSE [world |-> w, ret |-> None, panic |-> FALSE]

\* destroy_entity that returns the entity and leaves it in the registry.
destroy_entity_keeps(w, entity) ==
    [world |-> w, ret |-> HashMap_get(w.entities, entity)]

\* World::destroy_entity(entity)
destroy_entity(w, entity) ==
    LET rem == HashMap_remove(w.entities, entity)
    IN  [world |-> [w EXCEPT !.entities = rem.map], ret |-> rem.ret]

\* A loop body that runs the system on the clone and never writes it back.
dispatch_entity_no_write_back(entity, sys) ==
    [self |-> entity, ran |-> fetch(entity, sys.data).some, panic |-> FALSE]

\* A loop body that writes the new data back to an entity emptied first.
dispatch_entity_only_data(entity, sys) ==
    LET data == fetch(entity, sys.data)
    IN  IF data.some
        THEN [self |-> Entity_set(Entity_default, sys.data, run(sys, data.val)).self,
              ran |-> TRUE, panic |-> FALSE]
        ELSE [self |-> entity, ran |-> FALSE, panic |-> FALSE]

\* The body of the loop of World::dispatch_system for one entity.
\* ran: whether sys.run was invoked.
dispatch_entity(entity, sys) ==
    LET data == fetch(entity, sys.data)
    IN  IF data.some
        THEN LET new_data == run(sys, data.val)
                 s == Entity_set(entity, sys.data, new_data)
             IN  [self |-> s.self, ran |-> TRUE, panic |-> s.panic]
        ELSE [self |-> entity, ran |-> FALSE, panic |-> FALSE]

\* The loop of World::dispatch_system from position i of the order in which
\* entities.values_mut() yields the entities.  runs: the identities of the
\* entities sys.run was invoked for so far, in the order of the calls.  A
\* run that aborts unwinds out of the loop before entity.set is reached.
RECURSIVE dispatch_from(_, _, _, _, _)
dispatch_from(entities, sys, order, i, runs) ==
    IF i > Len(order)
    THEN [entities |-> entities, runs |-> runs, panic |-> FALSE]
    ELSE LET id == order[i]
             r == dispatch_entity(entities[id], sys)
             ents == [entities EXCEPT ![id] = r.self]
             log == IF r.ran THEN Append(runs, id) ELSE runs
         IN  IF r.ran /\ run_aborts(sys, Len(log))
             THEN [entities |-> entities, runs |-> log, panic |-> TRUE]
             ELSE IF r.panic
             THEN [entities |-> ents, runs |-> log, panic |-> TRUE]
             ELSE dispatch_from(ents, sys, order, i + 1, log)

\* dispatch_system that stops after the entity visited first.
dispatch_system_first_only(w, sys, order) ==
    LET first == IF order = <<>> THEN order ELSE <<order[1]>>
        r == dispatch_from(w.entities, sys, first, 1, <<>>)
    IN  [world |-> [w EXCEPT !.entities = r.entities], runs |-> r.runs,
         panic |-> r.panic]

\* dispatch_system that restores every entity when the loop panics.
dispatch_system_rollback(w, sys, order) ==
    LET r == dispatch_from(w.entities, sys, order, 1, <<>>)
    IN  [world |-> IF r.panic THEN w ELSE [w EXCEPT !.entities = r.entities],
         runs |-> r.runs, panic |-> r.panic]

\* dispatch_system that keeps only the entities sys.run was invoked for.
dispatch_system_retain_matching(w, sys, order) ==
    LET r == dispatch_from(w.entities, sys, order, 1, <<>>)
        kept == {id \in DOMAIN r.entities : \E i \in DOMAIN r.runs : r.runs[i] = id}
    IN  [world |-> [w EXCEPT !.entities = [id \in kept |-> r.entities[id]]],
         runs |-> r.runs, panic |-> r.panic]

\* World::dispatch_system(sys), the entities visited in the given order.
dispatch_system(w, sys, order) ==
    LET r == dispatch_from(w.entities, sys, order, 1, <<>>)
    IN  [world |-> [w EXCEPT !.entities = r.entities], runs |-> r.runs,
         panic |-> r.panic]

\* The orders in which HashMap::values_mut() can yield the entities of m.
IterOrders(m) ==
    {o \in [1..Cardinality(DOMAIN m) -> DOMAIN m] :
        \A i, j \in DOMAIN o : i # j => o[i] # o[j]}

\* ---------------------------------------------------------- EntityBuilder
\* EntityBuilder::new(world)
EntityBuilder_new == [entity |-> Entity_default]

\* with() that keeps the component staged first for a type.
EntityBuilder_with_first_wins(b, C, component) ==
    IF C \in DOMAIN b.entity.components THEN [self |-> b, panic |-> FALSE]
    ELSE [self |-> [b EXCEPT !.entity = add_component(b.entity, C, component).self],
          panic |-> FALSE]

\* EntityBuilder::with(component)
EntityBuilder_with(b, C, component) ==
    LET r == add_component(b.entity, C, component)
    IN  [self |-> [b EXCEPT !.entity = r.self], panic |-> r.panic]

\* EntityBuilder::build()
EntityBuilder_build(b, w) == insert_entity(w, b.entity)

\* ------------------------------------------------------------------ state
VARIABLES
    world,      \* the World
    builder,    \* the EntityBuilder that borrows the World, or None
    ent,        \* a stand-alone Entity (SpecEntity)
    ret,        \* the last call: its name, arguments and return value
    built,      \* the identities build() returned so far, in order
    panicked,   \* whether a panic ended the program
    origin,     \* SpecTicks: the World before the first dispatch_system;
                \* SpecBuilder: the World when create_entity was called
    calls       \* SpecTicks: the systems dispatched since, in order;
                \* SpecBuilder: the <<C, v>> staged by with() since, in order

vars == <<world, builder, ent, ret, built, panicked, origin, calls>>

ticks == <<origin, calls>>

\* The record of a call: op its name; C, id, v, sys, shape, data its
\* arguments (those the operation has); comp, entity, eid, flag, runs its
\* return value, in the field of its type.  runs lists the identities
\* sys.run was invoked for by dispatch_system, in the order of the calls.
NoCall ==
    [op |-> "init", C |-> "", id |-> -1, v |-> None, sys |-> None,
     shape |-> <<>>, data |-> <<>>,
     comp |-> None, entity |-> None, eid |-> None, flag |-> None, runs |-> <<>>]

Init ==
    /\ world = World_default
    /\ builder = None
    /\ ent = Entity_default
    /\ ret = NoCall
    /\ built = <<>>
    /\ panicked = FALSE
    /\ origin = World_default
    /\ calls = <<>>

\* Every coordinate of every component of the entities is within the bound.
InBounds(entities) ==
    \A id \in DOMAIN entities : \A C \in DOMAIN entities[id].components :
        entities[id].components[C].val \in CompValues

\* ---------------------------------------------------------- World actions
\* In an action, \E r \in {call} binds r to the outcome of the call.
\* world.create_entity(): the builder borrows the World until build().
CreateCall ==
    /\ ~panicked
    /\ ~builder.some
    /\ world.next_entity_id < MaxEntities
    /\ builder' = Some(EntityBuilder_new)
    /\ ret' = [NoCall EXCEPT !.op = "create_entity"]
    /\ UNCHANGED <<world, ent, built, panicked>>

CreateEntity ==
    /\ CreateCall
    /\ UNCHANGED ticks

\* .with(component)
WithCall(C, v) ==
    /\ ~panicked
    /\ builder.some
    /\ \E r \in {EntityBuilder_with(builder.val, C, v)} :
           /\ builder' = Some(r.self)
           /\ panicked' = r.panic
    /\ ret' = [NoCall EXCEPT !.op = "with", !.C = C, !.v = Some(v)]
    /\ UNCHANGED <<world, ent, built>>

With(C, v) ==
    /\ WithCall(C, v)
    /\ UNCHANGED ticks

\* .build()
Build ==
    /\ ~panicked
    /\ builder.some
    /\ \E r \in {EntityBuilder_build(builder.val, world)} :
           /\ world' = r.world
           /\ ret' = [NoCall EXCEPT !.op = "build", !.eid = Some(r.ret)]
           /\ built' = Append(built, r.ret)
    /\ builder' = None
    /\ UNCHANGED <<ent, panicked, origin, calls>>

RegisterComponent(C) ==
    /\ ~panicked
    /\ ~builder.some
    /\ \E r \in {register_component(world, C)} :
           /\ world' = r.world
           /\ ret' = [NoCall EXCEPT !.op = "register_component", !.C = C,
                                        !.flag = Some(r.ret)]
    /\ UNCHANGED <<builder, ent, built, panicked, origin, calls>>

GetComponentForEntity(C, id) ==
    /\ ~panicked
    /\ ~builder.some
    /\ ret' = [NoCall EXCEPT !.op = "get_component_for_entity", !.C = C, !.id = id,
                           !.comp = get_component_for_entity(world, C, id)]
    /\ UNCHANGED <<world, builder, ent, built, panicked, origin, calls>>

RemoveComponentFromEntity(C, id) ==
    /\ ~panicked
    /\ ~builder.some
    /\ \E r \in {remove_component_from_entity(world, C, id)} :
           /\ world' = r.world
           /\ ret' = [NoCall EXCEPT !.op = "remove_component_from_entity", !.C = C,
                                        !.id = id, !.comp = r.ret]
           /\ panicked' = r.panic
    /\ UNCHANGED <<builder, ent, built, origin, calls>>

DestroyEntity(id) ==
    /\ ~panicked
    /\ ~builder.some
    /\ \E r \in {destroy_entity(world, id)} :
           /\ world' = r.world
           /\ ret' = [NoCall EXCEPT !.op = "destroy_entity", !.id = id,
                                        !.entity = r.ret]
    /\ UNCHANGED <<builder, ent, built, panicked, origin, calls>>

\* world.dispatch_system(&mut sys)
DispatchCall(sys) ==
    /\ ~panicked
    /\ ~builder.some
    /\ \E order \in IterOrders(world.entities) :
       \E r \in {dispatch_system(world, sys, order)} :
           /\ InBounds(r.world.entities)
           /\ world' = r.world
           /\ ret' = [NoCall EXCEPT !.op = "dispatch_system", !.sys = Some(sys),
                                        !.runs = r.runs]
           /\ panicked' = r.panic
    /\ UNCHANGED <<builder, ent, built>>

DispatchSystem(sys) ==
    /\ DispatchCall(sys)
    /\ UNCHANGED ticks

Next ==
    \/ CreateEntity
    \/ \E C \in TypeIds : \E v \in WithInputs(C) : With(C, v)
    \/ Build
    \/ \E C \in TypeIds : \E id \in Eids : GetComponentForEntity(C, id)
    \/ \E C \in TypeIds : \E id \in Eids : RemoveComponentFromEntity(C, id)
    \/ \E id \in Eids : DestroyEntity(id)
    \/ \E sys \in Systems : DispatchSystem(sys)

Spec == Init /\ [][Next]_vars

\* The World with register_component: registration, construction and dispatch.
NextRegistry ==
    \/ \E C \in TypeIds : RegisterComponent(C)
    \/ CreateEntity
    \/ \E C \in TypeIds : \E v \in WithInputs(C) : With(C, v)
    \/ Build
    \/ \E sys \in Systems : DispatchSystem(sys)

SpecRegistry == Init /\ [][NextRegistry]_vars

\* ------------------------------------------------------ construction chains
\* world.create_entity(), the start of a chain: origin is the World the
\* builder borrows, calls the components staged by with() since, in order.
CreateChain ==
    /\ CreateCall
    /\ origin' = world
    /\ calls' = <<>>

\* One of the first MaxWith calls of .with(component) of a chain.
Stage(C, v) ==
    /\ Len(calls) < MaxWith
    /\ WithCall(C, v)
    /\ calls' = Append(calls, <<C, v>>)
    /\ UNCHANGED origin

NextBuilder ==
    \/ CreateChain
    \/ \E C \in TypeIds : \E v \in WithInputs(C) : Stage(C, v)
    \/ Build
    \/ \E id \in Eids : DestroyEntity(id)

SpecBuilder == Init /\ [][NextBuilder]_vars

\* ------------------------------------------------- consecutive dispatches
\* The entities create_entity().with(c1)...with(cn).build() can hand to the
\* World, for the staged components of WithInputs.
Staged ==
    LET One == {<<C, v>> : C \in TypeIds, v \in PosInputs \cup VelInputs}
        Ok == {s \in One : s[2] \in WithInputs(s[1])}
    IN  UNION {[1..n -> Ok] : n \in 0..2}

RECURSIVE with_all(_, _)
with_all(b, staged) ==
    IF staged = <<>> THEN b
    ELSE with_all(EntityBuilder_with(b, staged[1][1], staged[1][2]).self, Tail(staged))

BuiltEntities == {with_all(EntityBuilder_new, staged) : staged \in Staged}

\* The Worlds after n builds and nothing else.
RECURSIVE BuiltWorlds(_)
BuiltWorlds(n) ==
    IF n = 0 THEN {World_default}
    ELSE {EntityBuilder_build(b, w).world : b \in BuiltEntities, w \in BuiltWorlds(n - 1)}

\* A World of up to MaxEntities built entities, about to be dispatched on.
InitTicks ==
    /\ \E n \in 0..MaxEntities :
         /\ world \in BuiltWorlds(n)
         /\ built = [i \in 1..n |-> i - 1]
         /\ ret = IF n = 0 THEN NoCall
                  ELSE [NoCall EXCEPT !.op = "build", !.eid = Some(n - 1)]
    /\ builder = None
    /\ ent = Entity_default
    /\ panicked = FALSE
    /\ origin = world
    /\ calls = <<>>

\* One of the first MaxCalls calls of world.dispatch_system(&mut sys).
Tick(sys) ==
    /\ Len(calls) < MaxCalls
    /\ DispatchCall(sys)
    /\ calls' = Append(calls, sys)
    /\ UNCHANGED origin

NextTicks == \E sys \in Systems : Tick(sys)

SpecTicks == InitTicks /\ [][NextTicks]_vars

\* <() as ResourceData>::fetch_res(&world): flag is whether the Option
\* returned is Some.
FetchRes ==
    /\ ~panicked
    /\ ~builder.some
    /\ \E r \in {fetch_res_unit(world)} :
           ret' = [NoCall EXCEPT !.op = "fetch_res", !.flag = Some(r.some)]
    /\ UNCHANGED <<world, builder, ent, built, panicked, origin, calls>>

\* Systems that declare Resources = (): the resources fetched and the
\* systems dispatched.
NextResources ==
    \/ FetchRes
    \/ \E sys \in Systems : Tick(sys)

SpecResources == InitTicks /\ [][NextResources]_vars

\* Dispatches of a system whose run aborts.
NextAbort == \E sys \in AbortingSystems : Tick(sys)

SpecAbort == InitTicks /\ [][NextAbort]_vars

\* --------------------------------------------------------- Entity actions
\* e.add_component::<C>(v)
AddComponent(C, v) ==
    /\ ~panicked
    /\ \E r \in {add_component(ent, C, v)} :
           /\ ent' = r.self
           /\ ret' = [NoCall EXCEPT !.op = "add_component", !.C = C, !.v = Some(v),
                                        !.comp = r.ret]
           /\ panicked' = r.panic
    /\ UNCHANGED <<world, builder, built, origin, calls>>

\* e.get_component::<C>()
GetComponent(C) ==
    /\ ~panicked
    /\ ret' = [NoCall EXCEPT !.op = "get_component", !.C = C,
                           !.comp = get_component(ent, C)]
    /\ UNCHANGED <<world, builder, ent, built, panicked, origin, calls>>

\* *e.get_mut_component::<C>().unwrap() = v, when the call returns Some;
\* nothing is written when it returns None or panics.
GetMutComponent(C, v) ==
    /\ ~panicked
    /\ \E r \in {get_mut_component(ent, C)} :
           /\ ent' = IF r.ret.some THEN write_through(ent, C, v) ELSE ent
           /\ ret' = [NoCall EXCEPT !.op = "get_mut_component", !.C = C, !.v = Some(v),
                                        !.comp = r.ret]
           /\ panicked' = r.panic
    /\ UNCHANGED <<world, builder, built, origin, calls>>

\* e.remove_component::<C>()
RemoveComponent(C) ==
    /\ ~panicked
    /\ \E r \in {remove_component(ent, C)} :
           /\ ent' = r.self
           /\ ret' = [NoCall EXCEPT !.op = "remove_component", !.C = C, !.comp = r.ret]
           /\ panicked' = r.panic
    /\ UNCHANGED <<world, builder, built, origin, calls>>

\* e.set::<S>(data) for a system S whose Data has the given shape
EntitySet(shape, data) ==
    /\ ~panicked
    /\ \E r \in {Entity_set(ent, shape, data)} :
           /\ ent' = r.self
           /\ panicked' = r.panic
    /\ ret' = [NoCall EXCEPT !.op = "set", !.shape = shape, !.data = data]
    /\ UNCHANGED <<world, builder, built, origin, calls>>

\* S::Data::fetch(&e) for a system S whose Data has the given shape: flag is
\* whether the Option returned is Some, data its value.
Fetch(shape) ==
    /\ ~panicked
    /\ \E r \in {fetch(ent, shape)} :
           ret' = [NoCall EXCEPT !.op = "fetch", !.shape = shape,
                                 !.flag = Some(r.some),
                                 !.data = IF r.some THEN r.val ELSE <<>>]
    /\ UNCHANGED <<world, builder, ent, built, panicked, origin, calls>>

NextEntity ==
    \/ CreateEntity
    \/ \E C \in TypeIds : \E v \in WithInputs(C) : With(C, v)
    \/ \E C \in TypeIds : \E v \in CompValues : AddComponent(C, v)
    \/ \E C \in TypeIds : GetComponent(C)
    \/ \E C \in TypeIds : \E v \in CompValues : GetMutComponent(C, v)
    \/ \E C \in TypeIds : RemoveComponent(C)
    \/ \E shape \in Shapes : \E data \in DataValues(shape) : EntitySet(shape, data)
    \/ \E shape \in Shapes : Fetch(shape)

SpecEntity == Init /\ [][NextEntity]_vars

\* ================================================================ claims
\* Whether entity e holds a component of type C, and its value.
Has(e, C) == C \in DOMAIN e.components

Val(e, C) == e.components[C].val

\* The number of times x occurs in the sequence s.
Count(s, x) == Cardinality({i \in DOMAIN s : s[i] = x})

\* The step is a call of op.
Called(op) == ret'.op = op

\* ---- C1
\* C1: one dispatch_system of a system whose Data is a tuple (A, B) invokes
\* run exactly once for each entity that holds both A and B and never for an
\* entity that holds only A, only B or neither.
C1_TupleDispatchRunsOncePerEntityWithBoth ==
    [][(Called("dispatch_system") /\ Len(ret'.sys.val.data) = 2) =>
        LET A == ret'.sys.val.data[1]
            B == ret'.sys.val.data[2]
            runs == ret'.runs
        IN  /\ \A i \in DOMAIN runs : runs[i] \in DOMAIN world.entities
            /\ \A id \in DOMAIN world.entities :
                 Count(runs, id) =
                    IF Has(world.entities[id], A) /\ Has(world.entities[id], B)
                    THEN 1 ELSE 0]_vars

\* A tuple dispatch ran for one entity and skipped another that holds only Pos.
C1_Witness ==
    /\ ret.op = "dispatch_system"
    /\ Len(ret.sys.val.data) = 2
    /\ \E id1, id2 \in DOMAIN world.entities :
         /\ Count(ret.runs, id1) = 1
         /\ Count(ret.runs, id2) = 0
         /\ Has(world.entities[id2], "Pos")
         /\ ~Has(world.entities[id2], "Vel")

\* ---- C2
\* C2: after one dispatch_system of the movement system (Data = (Pos, Vel),
\* run adds vel * dt to pos), every entity that held both Pos and Vel has a
\* stored Pos equal to its previous Pos plus its Vel times dt and its Vel
\* unchanged, and every entity lacking Pos or Vel is exactly as before.
C2_MovementAddsVelToPos ==
    [][(Called("dispatch_system") /\ ret'.sys.val.name = "MovementSystem") =>
        LET dt == ret'.sys.val.dt
        IN  /\ DOMAIN world'.entities = DOMAIN world.entities
            /\ \A id \in DOMAIN world.entities :
                 LET e == world.entities[id]
                     f == world'.entities[id]
                 IN  IF Has(e, "Pos") /\ Has(e, "Vel")
                     THEN /\ DOMAIN f.components = DOMAIN e.components
                          /\ f.components["Pos"] =
                               Box("Pos", [x |-> Val(e, "Pos").x + Val(e, "Vel").x * dt,
                                           y |-> Val(e, "Pos").y + Val(e, "Vel").y * dt])
                          /\ f.components["Vel"] = e.components["Vel"]
                     ELSE f = e]_vars

\* The movement system with dt = 1 moved one entity and left alone another
\* that lacks Vel.
C2_Witness ==
    /\ ret.op = "dispatch_system"
    /\ ret.sys.val.name = "MovementSystem"
    /\ ret.sys.val.dt = 1
    /\ \E id1, id2 \in DOMAIN world.entities :
         /\ Count(ret.runs, id1) = 1
         /\ Val(world.entities[id1], "Pos").x >= 1
         /\ Has(world.entities[id2], "Pos")
         /\ ~Has(world.entities[id2], "Vel")

\* ---- C3
\* What one run of sys makes of entity e: the members of the Data shape
\* replaced by what run computes from their values when e holds them all,
\* e itself otherwise.
Applied(e, sys) ==
    IF \A i \in DOMAIN sys.data : Has(e, sys.data[i])
    THEN LET old == [i \in DOMAIN sys.data |-> Val(e, sys.data[i])]
             new == run(sys, old)
         IN  [components |->
                [C \in DOMAIN e.components |->
                    IF \E i \in DOMAIN sys.data : sys.data[i] = C
                    THEN Box(C, new[CHOOSE i \in DOMAIN sys.data : sys.data[i] = C])
                    ELSE e.components[C]]]
    ELSE e

RECURSIVE AppliedAll(_, _)
AppliedAll(e, systems) ==
    IF systems = <<>> THEN e
    ELSE AppliedAll(Applied(e, Head(systems)), Tail(systems))

\* C3: dispatches are sequentially consistent: after dispatch_system calls
\* in sequence (the same or different systems) the stored data of every
\* entity is the runs applied one after the other to its initial data, each
\* call fetching what the call before wrote back: f(f(initial)) after two.
C3_SecondDispatchObservesFirst ==
    /\ DOMAIN world.entities = DOMAIN origin.entities
    /\ \A id \in DOMAIN world.entities :
         world.entities[id] = AppliedAll(origin.entities[id], calls)

\* The movement system with dt = 1 was dispatched twice on an entity built
\* with Pos.x = 0 and Vel.x = 1, and its Pos.x is 2.
C3_Witness ==
    /\ Len(calls) = 2
    /\ calls[1] = calls[2]
    /\ calls[1].name = "MovementSystem"
    /\ calls[1].dt = 1
    /\ \E id \in DOMAIN world.entities :
         /\ Has(origin.entities[id], "Pos") /\ Has(origin.entities[id], "Vel")
         /\ Val(origin.entities[id], "Pos").x = 0
         /\ Val(origin.entities[id], "Vel").x = 1
         /\ Val(world.entities[id], "Pos").x = 2

\* ---- C4
\* C4: each identity returned by build is strictly greater than every
\* identity returned by an earlier build, destroy_entity calls included.
C4_BuildIdentitiesStrictlyIncrease ==
    \A i, j \in DOMAIN built : i < j => built[i] < built[j]

\* A build that followed the destruction of an entity built before it.
C4_Witness ==
    /\ ret.op = "build"
    /\ Len(built) >= 2
    /\ built[1] \notin DOMAIN world.entities

\* ---- C5
\* C5: dispatch_system of a system with Data = () invokes run once for every
\* entity of the World and leaves every entity unchanged.
C5_UnitShapeRunsOnEveryEntity ==
    [][(Called("dispatch_system") /\ ret'.sys.val.data = <<>>) =>
        /\ \A id \in DOMAIN world.entities : Count(ret'.runs, id) = 1
        /\ world' = world]_vars

\* ---- C6
\* C6: get_mut_component::<C>() on an entity that holds no C returns None
\* without a fault and leaves the entity unchanged.
C6_GetMutOfMissingComponentReturnsNone ==
    [][(Called("get_mut_component") /\ ~Has(ent, ret'.C)) =>
        /\ ret'.comp = None
        /\ ~panicked'
        /\ ent' = ent]_vars

\* ---- C7
\* C7: add_component(v) immediately followed by get_component::<C>() returns
\* v, and a value written through get_mut_component::<C>() is the value the
\* next get_component::<C>() returns.
C7_GetReturnsWhatWasAddedOrWritten ==
    [][(/\ Called("get_component")
        /\ \/ ret.op = "add_component"
           \/ ret.op = "get_mut_component" /\ ret.comp.some
        /\ ret.C = ret'.C) =>
        ret'.comp = ret.v]_vars

\* get_mut_component returned a reference to a stored component and a
\* different value was written through it.
C7_Witness ==
    /\ ret.op = "get_mut_component"
    /\ ret.comp.some
    /\ ret.comp # ret.v
    /\ Has(ent, ret.C)
    /\ ~panicked

\* ---- C8
\* C8: remove_component::<C>() on an entity lacking C returns None and
\* changes nothing; on an entity holding C with value v it returns v, the
\* entity then holds no C, the components of other types are unchanged, and
\* a following get_component::<C>() or remove_component::<C>() returns None.
C8_RemoveComponent ==
    [][/\ Called("remove_component") =>
            LET C == ret'.C
            IN  IF Has(ent, C)
                THEN /\ ret'.comp = Some(Val(ent, C))
                     /\ ~Has(ent', C)
                     /\ \A D \in TypeIds \ {C} :
                          /\ Has(ent', D) <=> Has(ent, D)
                          /\ Has(ent, D) => ent'.components[D] = ent.components[D]
                ELSE /\ ret'.comp = None
                     /\ ent' = ent
       /\ (/\ ret.op = "remove_component"
           /\ Called("get_component") \/ Called("remove_component")
           /\ ret'.C = ret.C) => ret'.comp = None]_vars

\* remove_component returned the value of a component of an entity that
\* still holds a component of another type.
C8_Witness ==
    /\ ret.op = "remove_component"
    /\ ret.comp.some
    /\ \E D \in TypeIds \ {ret.C} : Has(ent, D)

\* ---- C9
\* At most one stored component has the dynamic type C, for every type C.
AtMostOnePerType(e) ==
    \A C \in TypeIds :
        Cardinality({k \in DOMAIN e.components : e.components[k].type = C}) <= 1

\* C9: add_component::<C>(v) returns None when the entity held no C and the
\* previously stored value when it did, and stores v; after any sequence of
\* add_component, remove_component, set and builder with() calls an entity
\* holds at most one component per component type.
C9_AddComponentReplaces ==
    [][/\ Called("add_component") =>
            LET C == ret'.C
            IN  /\ ret'.comp = IF Has(ent, C) THEN Some(Val(ent, C)) ELSE None
                /\ Has(ent', C)
                /\ Some(Val(ent', C)) = ret'.v
       /\ AtMostOnePerType(ent')
       /\ builder'.some => AtMostOnePerType(builder'.val.entity)]_vars

\* add_component replaced a different stored value and returned it.
C9_Witness ==
    /\ ret.op = "add_component"
    /\ ret.comp.some
    /\ ret.comp # ret.v
    /\ Some(Val(ent, ret.C)) = ret.v

\* ---- C10
\* C10: destroy_entity(id) on a live identity removes exactly that entity
\* and returns it with all its components, every other entity staying
\* present and unchanged; on an identity that is not in the registry
\* (destroyed before, or never created) it returns None and leaves the
\* World unchanged.
C10_DestroyEntity ==
    [][/\ Called("destroy_entity") =>
            LET id == ret'.id
            IN  IF id \in DOMAIN world.entities
                THEN /\ ret'.entity = Some(world.entities[id])
                     /\ DOMAIN world'.entities = DOMAIN world.entities \ {id}
                     /\ \A o \in DOMAIN world'.entities :
                          world'.entities[o] = world.entities[o]
                     /\ world'.next_entity_id = world.next_entity_id
                     /\ world'.component_ids = world.component_ids
                ELSE /\ ret'.entity = None
                     /\ world' = world
       /\ (/\ ret.op = "destroy_entity"
           /\ Called("destroy_entity")
           /\ ret'.id = ret.id) =>
                (ret'.entity = None /\ world' = world)]_vars

\* destroy_entity returned an entity with its components while another
\* entity stays in the registry.
C10_Witness ==
    /\ ret.op = "destroy_entity"
    /\ ret.entity.some
    /\ DOMAIN ret.entity.val.components = TypeIds
    /\ DOMAIN world.entities # {}
    /\ ret.id \notin DOMAIN world.entities

\* ---- C11
\* C11: get_component_for_entity::<C>(id) and
\* remove_component_from_entity::<C>(id) return None, without a panic and
\* with the World unchanged, when id is not in the registry (never created
\* or destroyed before) or when the entity holds no C; when the entity holds
\* C they return its value, get_component_for_entity leaves the World
\* unchanged and remove_component_from_entity takes C away from that entity
\* and changes nothing else.
C11_GetAndRemoveComponentOfEntity ==
    [][/\ Called("get_component_for_entity") =>
            LET C == ret'.C
                id == ret'.id
            IN  /\ ~panicked'
                /\ world' = world
                /\ ret'.comp =
                      IF id \in DOMAIN world.entities /\ Has(world.entities[id], C)
                      THEN Some(Val(world.entities[id], C)) ELSE None
       /\ Called("remove_component_from_entity") =>
            LET C == ret'.C
                id == ret'.id
            IN  /\ ~panicked'
                /\ IF id \in DOMAIN world.entities /\ Has(world.entities[id], C)
                   THEN /\ ret'.comp = Some(Val(world.entities[id], C))
                        /\ world' = [world EXCEPT !.entities[id].components =
                                [D \in DOMAIN world.entities[id].components \ {C} |->
                                    world.entities[id].components[D]]]
                   ELSE /\ ret'.comp = None
                        /\ world' = world]_vars

\* remove_component_from_entity returned None for an identity that was built
\* and destroyed, while an entity of the registry holds a component of the
\* type asked for.
C11_Witness ==
    /\ ret.op = "remove_component_from_entity"
    /\ ret.comp = None
    /\ \E i \in DOMAIN built : built[i] = ret.id
    /\ ret.id \notin DOMAIN world.entities
    /\ \E o \in DOMAIN world.entities : Has(world.entities[o], ret.C)

\* ---- C12
\* The World w with the set regs of registered component types.
Registered(w, regs) == [w EXCEPT !.component_ids = regs]

\* C12: register_component::<C>() returns true when C was not registered on
\* the World before and false on every later call for C (the registered
\* types are never forgotten), and changes nothing but the set of registered
\* types; dispatch_system gives the same entities, the same runs and the same
\* panic, whatever types are registered, as it gives on the same World with
\* no component type registered (visited in an order that begins with the
\* entities run was invoked for, in the order of the invocations), and
\* leaves the set of registered types unchanged.
C12_RegisterComponentIsBookkeeping ==
    [][/\ world.component_ids \subseteq world'.component_ids
       /\ Called("register_component") =>
            LET C == ret'.C
            IN  /\ ret'.flag = Some(C \notin world.component_ids)
                /\ world' = Registered(world, world.component_ids \cup {C})
       /\ Called("dispatch_system") =>
            /\ world'.component_ids = world.component_ids
            /\ \E order \in {CHOOSE o \in IterOrders(world.entities) :
                                \A i \in DOMAIN ret'.runs : o[i] = ret'.runs[i]} :
                 dispatch_system(Registered(world, {}), ret'.sys.val, order) =
                    [world |-> Registered(world', {}), runs |-> ret'.runs,
                     panic |-> panicked']]_vars

\* register_component::<Pos>() returned false on a World where Vel was
\* never registered and where the movement system has moved an entity.
C12_Witness ==
    /\ ret.op = "register_component"
    /\ ret.C = "Pos"
    /\ ret.flag = Some(FALSE)
    /\ "Vel" \notin world.component_ids
    /\ \E id \in DOMAIN world.entities :
         /\ Has(world.entities[id], "Vel")
         /\ Has(world.entities[id], "Pos")
         /\ Val(world.entities[id], "Pos").x = MaxCoord

\* ---- C13
\* The component types staged by the with() calls of log, and the value the
\* last with() of type C staged.
StagedTypes(log) == {log[i][1] : i \in DOMAIN log}

LastStaged(log, C) ==
    LET last == CHOOSE i \in DOMAIN log :
                    /\ log[i][1] = C
                    /\ \A j \in DOMAIN log : log[j][1] = C => j <= i
    IN  log[last][2]

\* C13: after create_entity().with(c1)...with(cn).build() the World stores,
\* under the identity build() returned, an entity that holds exactly the
\* component types staged, each with the value staged last for it, the
\* identity is new to the registry, and every entity the World held when the
\* chain began is stored unchanged.
C13_BuildStoresTheStagedComponents ==
    ret.op = "build" =>
        LET id == ret.eid.val
        IN  /\ id \notin DOMAIN origin.entities
            /\ DOMAIN world.entities = DOMAIN origin.entities \cup {id}
            /\ DOMAIN world.entities[id].components = StagedTypes(calls)
            /\ \A C \in StagedTypes(calls) :
                 world.entities[id].components[C] = Box(C, LastStaged(calls, C))
            /\ \A o \in DOMAIN origin.entities :
                 world.entities[o] = origin.entities[o]

\* A chain that staged Pos twice with different values around a Vel was
\* built into a World that already held an entity.
C13_Witness ==
    /\ ret.op = "build"
    /\ Len(calls) = 3
    /\ calls[1][1] = "Pos"
    /\ calls[2][1] = "Vel"
    /\ calls[3][1] = "Pos"
    /\ calls[1][2] # calls[3][2]
    /\ DOMAIN origin.entities # {}

\* ---- C14
\* C14: dispatch_system neither removes nor creates entities: for every
\* system, the set of identities of the registry and next_entity_id are the
\* same after the call as before it.
C14_DispatchKeepsTheRegistry ==
    [][Called("dispatch_system") =>
        /\ DOMAIN world'.entities = DOMAIN world.entities
        /\ world'.next_entity_id = world.next_entity_id]_vars

\* A dispatch ran the system for an entity of a World another entity of
\* which was destroyed before.
C14_Witness ==
    /\ ret.op = "dispatch_system"
    /\ \E id \in DOMAIN world.entities : Count(ret.runs, id) = 1
    /\ \E id \in 0..(world.next_entity_id - 1) : id \notin DOMAIN world.entities

\* ---- C15
\* C15: SystemData::set writes every member of the shape unconditionally:
\* after set of (a, b) on any entity get_component::<A>() returns a and
\* get_component::<B>() returns b, whatever the entity held before; after
\* set of c for a single-component shape C get_component::<C>() returns c;
\* the components of types outside the shape are unchanged.
C15_SetWritesEveryMember ==
    [][Called("set") =>
        LET shape == ret'.shape
            data == ret'.data
        IN  /\ ~panicked'
            /\ \A i \in DOMAIN shape : get_component(ent', shape[i]) = Some(data[i])
            /\ \A D \in TypeIds :
                 (\A i \in DOMAIN shape : shape[i] # D) =>
                    get_component(ent', D) = get_component(ent, D)]_vars

\* The value set writes last for the type of member i of the shape.
LastWritten(shape, data, i) ==
    LET last == CHOOSE j \in DOMAIN shape :
                    /\ shape[j] = shape[i]
                    /\ \A k \in DOMAIN shape : shape[k] = shape[i] => k <= j
    IN  data[last]

\* C15, amended: set writes every member of the shape unconditionally and in
\* the order of the shape: after set of (a, b) with A and B different types
\* get_component::<A>() returns a and get_component::<B>() returns b,
\* whatever the entity held before; after set of (a, b) with A and B the same
\* type get_component::<A>() returns b; after set of c for a
\* single-component shape C get_component::<C>() returns c; the components
\* of types outside the shape are unchanged.
C15_SetWritesMembersInOrder ==
    [][Called("set") =>
        LET shape == ret'.shape
            data == ret'.data
        IN  /\ ~panicked'
            /\ \A i \in DOMAIN shape :
                 get_component(ent', shape[i]) = Some(LastWritten(shape, data, i))
            /\ \A D \in TypeIds :
                 (\A i \in DOMAIN shape : shape[i] # D) =>
                    get_component(ent', D) = get_component(ent, D)]_vars

\* set of a tuple of two different values of one type left the second one.
C15_Witness ==
    /\ ret.op = "set"
    /\ Len(ret.shape) = 2
    /\ ret.shape[1] = ret.shape[2]
    /\ ret.data[1] # ret.data[2]
    /\ get_component(ent, ret.shape[1]) = Some(ret.data[2])
    /\ \E D \in TypeIds : D # ret.shape[1] /\ Has(ent, D)

\* ---- C16
\* C16: SystemData::fetch is all-or-nothing and read-only: for a
\* single-component shape C it succeeds iff the entity holds C, for a tuple
\* (A, B) iff the entity holds both A and B; on success it yields the stored
\* values of the members, on failure None and no member value; the entity is
\* unchanged in both cases and fetch does not panic.
C16_FetchIsAllOrNothing ==
    [][(Called("fetch") /\ Len(ret'.shape) >= 1) =>
        LET shape == ret'.shape
            all == \A i \in DOMAIN shape : Has(ent, shape[i])
        IN  /\ ent' = ent
            /\ ~panicked'
            /\ ret'.flag = Some(all)
            /\ ret'.data = IF all THEN [i \in DOMAIN shape |-> Val(ent, shape[i])]
                           ELSE <<>>]_vars

\* fetch of a tuple returned None for an entity that holds one of the two
\* member types.
C16_Witness ==
    /\ ret.op = "fetch"
    /\ Len(ret.shape) = 2
    /\ ret.flag = Some(FALSE)
    /\ Has(ent, ret.shape[1]) # Has(ent, ret.shape[2])

\* ---- C17
\* C17: there is no rollback: when run aborts on an entity in the middle of
\* a dispatch_system pass, every entity run returned for earlier in the pass
\* keeps the values written back for it, and the entity run aborted on and
\* every other entity (skipped, or not visited yet) keep the values they had
\* before the dispatch.
C17_NoRollback ==
    [][(Called("dispatch_system") /\ panicked') =>
        LET sys == ret'.sys.val
            runs == ret'.runs
        IN  /\ runs # <<>>
            /\ DOMAIN world'.entities = DOMAIN world.entities
            /\ \A id \in DOMAIN world.entities :
                 world'.entities[id] =
                    IF \E i \in 1..(Len(runs) - 1) : runs[i] = id
                    THEN Applied(world.entities[id], sys)
                    ELSE world.entities[id]]_vars

\* The first dispatch aborted on the second entity run was invoked for: the
\* first one is stored moved, the second one as it was.
C17_Witness ==
    /\ panicked
    /\ ret.op = "dispatch_system"
    /\ Len(calls) = 1
    /\ Len(ret.runs) = 2
    /\ world.entities[ret.runs[1]] # origin.entities[ret.runs[1]]
    /\ world.entities[ret.runs[2]] = origin.entities[ret.runs[2]]

\* ---- C18
\* C18: ResourceData::fetch_res for () succeeds on every World, fetching
\* nothing, and a system that declares Resources = () is run by
\* dispatch_system for every entity that matches its Data shape of one or
\* two components.
C18_UnitResourcesAreFetched ==
    [][/\ Called("fetch_res") => ret'.flag = Some(TRUE)
       /\ (Called("dispatch_system") /\ Len(ret'.sys.val.data) >= 1) =>
            \A id \in DOMAIN world.entities :
                (\A i \in DOMAIN ret'.sys.val.data :
                    Has(world.entities[id], ret'.sys.val.data[i]))
                => Count(ret'.runs, id) = 1]_vars

\* ---- C19
\* C19: for a system with Data shape D, dispatch_system leaves unchanged, on
\* every entity, every component whose type is not a member of D, and every
\* entity holds the same set of component types after the call as before.
C19_DispatchFrame ==
    [][Called("dispatch_system") =>
        LET D == ret'.sys.val.data
        IN  \A id \in DOMAIN world.entities :
                /\ id \in DOMAIN world'.entities
                /\ DOMAIN world'.entities[id].components =
                   DOMAIN world.entities[id].components
                /\ \A C \in DOMAIN world.entities[id].components :
                     (\A i \in DOMAIN D : D[i] # C) =>
                        world'.entities[id].components[C] =
                        world.entities[id].components[C]]_vars

\* A system whose Data is one component type ran for an entity that holds
\* a component of the other type as well.
C19_Witness ==
    /\ ret.op = "dispatch_system"
    /\ Len(ret.sys.val.data) = 1
    /\ \E id \in DOMAIN world.entities :
         /\ Count(ret.runs, id) = 1
         /\ \E C \in DOMAIN world.entities[id].components : C # ret.sys.val.data[1]

\* ---- C20
\* Every identity of the registry is below next_entity_id, and
\* next_entity_id is the number of builds completed.
RegistryBelowCounter ==
    /\ \A id \in DOMAIN world.entities : id < world.next_entity_id
    /\ world.next_entity_id = Len(built)

\* C20: in every state reachable by build, destroy_entity, component
\* removal and dispatch_system, every identity of the registry is strictly
\* less than next_entity_id and next_entity_id is the number of builds
\* completed; next_entity_id never decreases; and build (insert_entity)
\* stores the entity under an identity that was not in the registry, leaving
\* the entities already there as they were.
C20_RegistryInvariant ==
    [][/\ RegistryBelowCounter
       /\ RegistryBelowCounter'
       /\ world'.next_entity_id >= world.next_entity_id
       /\ Called("build") =>
            /\ ret'.eid.val \notin DOMAIN world.entities
            /\ \A id \in DOMAIN world.entities :
                 /\ id \in DOMAIN world'.entities
                 /\ world'.entities[id] = world.entities[id]]_vars

\* The second build was completed after the first entity was destroyed: the
\* registry holds the second identity alone.
C20_Witness ==
    /\ ret.op = "build"
    /\ Len(built) = 2
    /\ DOMAIN world.entities = {built[2]}
    /\ built[1] < built[2]

\* ---- C21
\* The order that visits the entities of m by ascending identity.
AscendingOrder(m) ==
    [i \in 1..Cardinality(DOMAIN m) |->
        CHOOSE id \in DOMAIN m : Cardinality({k \in DOMAIN m : k < id}) = i - 1]

\* C21: for a system whose run is a pure function of the fetched data
\* (MovementSystem and the systems that keep the default run), the World
\* after dispatch_system, whether the call panicked and the set of entities
\* run was invoked for are the same for every order in which values_mut()
\* can yield the entities of the registry: whatever order a call visits
\* them in, it gives what the visit by ascending identity gives.
C21_DispatchIsOrderIndependent ==
    [][Called("dispatch_system") =>
        \A order \in {AscendingOrder(world.entities)} :
            \A r \in {dispatch_system(world, ret'.sys.val, order)} :
                /\ r.world = world'
                /\ r.panic = panicked'
                /\ {r.runs[i] : i \in DOMAIN r.runs} =
                   {ret'.runs[i] : i \in DOMAIN ret'.runs}]_vars

\* The movement system ran for two entities that hold different data.
C21_Witness ==
    /\ ret.op = "dispatch_system"
    /\ ret.sys.val.name = "MovementSystem"
    /\ Len(ret.runs) = 2
    /\ world.entities[ret.runs[1]] # world.entities[ret.runs[2]]

====
